---- MODULE Spec2Model ----
(***************************************************************************)
(* Model of etoro_summary.py: the extraction of the eleven metrics from    *)
(* the two sheets of a statement workbook (process_etoro_statement), the   *)
(* ROI (calculate_roi), the report (format_financial_table) and the flat   *)
(* record written by main.                                                 *)
(*                                                                         *)
(* Text is a tuple of one-character strings ("CR" and "LF" stand for the   *)
(* carriage return and the line feed), so that substring tests, lower(),   *)
(* replace() and number formatting are computed, not assumed.  Amounts are *)
(* the integer-valued floats of the statement; a sheet cell is a number, a *)
(* text or NaN (an empty cell).                                            *)
(***************************************************************************)
EXTENDS Integers, Sequences, FiniteSets, TLC

VARIABLES
    pc,                 \* position of the run in main / process_etoro_statement
    argv,               \* sys.argv[1:]
    account_summary,    \* rows of the 'Account Summary' sheet
    financial_summary,  \* the 'Financial Summary' sheet: [columns, rows]
    file_path,          \* main's file_path
    metrics,            \* the metrics dict
    idx,                \* number of rows the running loop has consumed
    amount_column,      \* resolved header, <<>> for None
    console,            \* what was printed, in order
    table,              \* the rows of the Rich table
    csv_path,           \* path handed to to_csv, <<>> before the write
    csv,                \* (Metric, Value) lines written, <<>> before the write
    branch,             \* branch of the classification chain the last row took
    exit_code           \* -1 while running

vars == <<pc, argv, account_summary, financial_summary, file_path, metrics, idx, branch,
          amount_column, console, table, csv_path, csv, exit_code>>

-----------------------------------------------------------------------------
(* Bounds of the model *)

\* longest 'Account Summary' sheet enumerated
MaxAccountRows == 2

\* longest 'Financial Summary' sheet enumerated
MaxRows == 2

-----------------------------------------------------------------------------
(* Text primitives *)

Range(s) == {s[k] : k \in DOMAIN s}

Abs(x) == IF x < 0 THEN -x ELSE x

\* Python: sub in s
Contains(s, sub) ==
    \E k \in 0..(Len(s) - Len(sub)) : SubSeq(s, k + 1, k + Len(sub)) = sub

UpperLetters ==
    <<"A","B","C","D","E","F","G","H","I","J","K","L","M",
      "N","O","P","Q","R","S","T","U","V","W","X","Y","Z">>

LowerLetters ==
    <<"a","b","c","d","e","f","g","h","i","j","k","l","m",
      "n","o","p","q","r","s","t","u","v","w","x","y","z">>

LowerChar(c) ==
    IF \E k \in DOMAIN UpperLetters : UpperLetters[k] = c
    THEN LowerLetters[CHOOSE k \in DOMAIN UpperLetters : UpperLetters[k] = c]
    ELSE c

\* Python: s.lower()
Lower(s) == [k \in DOMAIN s |-> LowerChar(s[k])]

\* Python: s.replace(old, new), every non-overlapping occurrence, left to right
RECURSIVE Replace(_, _, _)
Replace(s, old, new) ==
    IF Len(s) < Len(old) THEN s
    ELSE IF SubSeq(s, 1, Len(old)) = old
         THEN new \o Replace(SubSeq(s, Len(old) + 1, Len(s)), old, new)
         ELSE <<Head(s)>> \o Replace(Tail(s), old, new)

DigitChars == <<"0","1","2","3","4","5","6","7","8","9">>

IsDigit(c) == \E k \in DOMAIN DigitChars : DigitChars[k] = c

DigitValue(c) == (CHOOSE k \in DOMAIN DigitChars : DigitChars[k] = c) - 1

\* decimal digits of a natural number
RECURSIVE Digits(_)
Digits(n) ==
    IF n < 10 THEN <<DigitChars[n + 1]>>
    ELSE Digits(n \div 10) \o <<DigitChars[(n % 10) + 1]>>

\* value of a non-empty digit string
RECURSIVE DigitsValue(_)
DigitsValue(s) ==
    IF Len(s) = 0 THEN 0
    ELSE 10 * DigitsValue(SubSeq(s, 1, Len(s) - 1)) + DigitValue(s[Len(s)])

AllDigits(s) == Len(s) > 0 /\ \A k \in DOMAIN s : IsDigit(s[k])

\* the ',' grouping of the format spec ",.2f", on the integer part
RECURSIVE Grouped(_)
Grouped(n) ==
    IF n < 1000 THEN Digits(n)
    ELSE Grouped(n \div 1000) \o <<",">>
         \o <<DigitChars[((n % 1000) \div 100) + 1],
              DigitChars[((n % 100) \div 10) + 1],
              DigitChars[(n % 10) + 1]>>

\* f"{x:,.2f}" of a non-negative integer-valued float
FormatGrouped2f(n) == Grouped(n) \o <<".", "0", "0">>

\* num/den (den > 0, num >= 0) rounded to an integer as ".2f" rounds the
\* hundredths of a float.  When the quotient is exactly halfway, the binary
\* float that stands for it lies on either side of the half: up says which.
RoundFloat(num, den, up) ==
    LET q == num \div den
        r == num % den
    IN  IF 2 * r < den THEN q
        ELSE IF 2 * r > den THEN q + 1
        ELSE IF up THEN q + 1 ELSE q

\* f"{x:.2f}" of a non-negative number given in hundredths
Format2f(h) ==
    Digits(h \div 100) \o <<".", DigitChars[((h % 100) \div 10) + 1],
                            DigitChars[(h % 10) + 1]>>

\* Python: float(text) for the texts of the model: an optional sign, digits,
\* an optional fraction of digits.  [ok, h] with h the value in hundredths;
\* ok = FALSE stands for ValueError.
ParseFloat(s) ==
    LET neg  == Len(s) > 0 /\ s[1] = "-"
        body == IF Len(s) > 0 /\ s[1] \in {"-", "+"} THEN Tail(s) ELSE s
        dots == {k \in DOMAIN body : body[k] = "."}
        ip   == IF dots = {} THEN body
                ELSE SubSeq(body, 1, (CHOOSE k \in dots : TRUE) - 1)
        fp   == IF dots = {} THEN <<>>
                ELSE SubSeq(body, (CHOOSE k \in dots : TRUE) + 1, Len(body))
        ok   == /\ Cardinality(dots) <= 1
                /\ AllDigits(ip)
                /\ (dots = {} \/ Len(fp) = 0 \/ (AllDigits(fp) /\ Len(fp) <= 2))
        frac == IF Len(fp) = 0 THEN 0
                ELSE IF Len(fp) = 1 THEN 10 * DigitsValue(fp)
                ELSE DigitsValue(fp)
        mag  == IF ok THEN 100 * DigitsValue(ip) + frac ELSE 0
    IN  [ok |-> ok, h |-> IF neg THEN -mag ELSE mag]

-----------------------------------------------------------------------------
(* Literals of the source *)

\* 'Profit or Loss'
ProfitOrLoss ==
    <<"P","r","o","f","i","t"," ","o","r"," ","L","o","s","s">>

\* 'Dividend'
Dividend ==
    <<"D","i","v","i","d","e","n","d">>

\* 'fee'
fee ==
    <<"f","e","e">>

\* 'charge'
charge ==
    <<"c","h","a","r","g","e">>

\* 'Amount'
Amount ==
    <<"A","m","o","u","n","t">>

\* 'USD'
USD ==
    <<"U","S","D">>

\* 'Amount\r\n in (USD)'
AmountCrLfInUSD ==
    <<"A","m","o","u","n","t","CR","LF"," ","i","n"," ","(","U","S","D",")">>

\* 'Amount in (USD)'
AmountInUSD ==
    <<"A","m","o","u","n","t"," ","i","n"," ","(","U","S","D",")">>

\* 'Amount\nin (USD)'
AmountLfInUSD ==
    <<"A","m","o","u","n","t","LF","i","n"," ","(","U","S","D",")">>

\* 'Amount (USD)'
AmountUSD ==
    <<"A","m","o","u","n","t"," ","(","U","S","D",")">>

\* 'Name'
Name ==
    <<"N","a","m","e">>

\* 'Deposits'
Deposits ==
    <<"D","e","p","o","s","i","t","s">>

\* 'Withdrawals'
Withdrawals ==
    <<"W","i","t","h","d","r","a","w","a","l","s">>

\* 'Ending Realized Equity'
EndingRealizedEquity ==
    <<"E","n","d","i","n","g"," ","R","e","a","l","i","z","e","d"," ","E","q","u","i","t","y">>

\* 'Ending Unrealized Equity'
EndingUnrealizedEquity ==
    <<"E","n","d","i","n","g"," ","U","n","r","e","a","l","i","z","e","d"," ","E","q","u","i","t","y">>

\* '.xlsx'
DotXlsx ==
    <<".","x","l","s","x">>

\* '_summary.csv'
SummaryCsv ==
    <<"_","s","u","m","m","a","r","y",".","c","s","v">>

\* 'N/A'
NA ==
    <<"N","/","A">>

\* 'Total '
TotalSpace ==
    <<"T","o","t","a","l"," ">>

\* 'Return on Investment'
ReturnOnInvestmentText ==
    <<"R","e","t","u","r","n"," ","o","n"," ","I","n","v","e","s","t","m","e","n","t">>

\* the keys of the metrics dict, in the order the dict literal lists them
MetricNames ==
    <<"Total Deposits",
      "Total Withdrawals",
      "Net Investment",
      "Realized Gains",
      "Dividend Income",
      "Other Income",
      "Total Expenses and Fees",
      "Net Realized Profit",
      "Current Realized Equity",
      "Current Unrealized Equity",
      "Unrealized Profit">>

ROI == "Return on Investment"

\* the spelling of a key, for the substring tests and the replace() on keys
KeyText(key) ==
    CASE key = "Total Deposits" ->
           <<"T","o","t","a","l"," ","D","e","p","o","s","i","t","s">>
      [] key = "Total Withdrawals" ->
           <<"T","o","t","a","l"," ","W","i","t","h","d","r","a","w","a","l","s">>
      [] key = "Net Investment" ->
           <<"N","e","t"," ","I","n","v","e","s","t","m","e","n","t">>
      [] key = "Realized Gains" ->
           <<"R","e","a","l","i","z","e","d"," ","G","a","i","n","s">>
      [] key = "Dividend Income" ->
           <<"D","i","v","i","d","e","n","d"," ","I","n","c","o","m","e">>
      [] key = "Other Income" ->
           <<"O","t","h","e","r"," ","I","n","c","o","m","e">>
      [] key = "Total Expenses and Fees" ->
           <<"T","o","t","a","l"," ","E","x","p","e","n","s","e","s"," ","a","n","d"," ","F","e","e","s">>
      [] key = "Net Realized Profit" ->
           <<"N","e","t"," ","R","e","a","l","i","z","e","d"," ","P","r","o","f","i","t">>
      [] key = "Current Realized Equity" ->
           <<"C","u","r","r","e","n","t"," ","R","e","a","l","i","z","e","d"," ","E","q","u","i","t","y">>
      [] key = "Current Unrealized Equity" ->
           <<"C","u","r","r","e","n","t"," ","U","n","r","e","a","l","i","z","e","d"," ","E","q","u","i","t","y">>
      [] key = "Unrealized Profit" ->
           <<"U","n","r","e","a","l","i","z","e","d"," ","P","r","o","f","i","t">>
      [] key = "Return on Investment" ->
           <<"R","e","t","u","r","n"," ","o","n"," ","I","n","v","e","s","t","m","e","n","t">>

-----------------------------------------------------------------------------
(* Sheet cells *)

Num(x) == [t |-> "num", n |-> x, s |-> <<>>]

Str(s) == [t |-> "str", n |-> 0, s |-> s]

\* an empty cell; also what row.get() gives for a column the sheet lacks
NaN == [t |-> "nan", n |-> 0, s |-> <<>>]

\* pd.notna(cell)
notna(cell) == cell.t # "nan"

\* float(cell): [ok, n]; ok = FALSE stands for ValueError
to_float(cell) ==
    IF cell.t = "num" THEN [ok |-> TRUE, n |-> cell.n]
    ELSE LET p == ParseFloat(cell.s)
         IN  [ok |-> p.ok, n |-> p.h \div 100]

\* row.get(col) of a 'Financial Summary' row
Get(row, col) == IF col \in DOMAIN row THEN row[col] ELSE NaN

-----------------------------------------------------------------------------
(* process_etoro_statement *)

InitialMetrics == [k \in Range(MetricNames) |-> 0]

\* the metric an 'Account Summary' label feeds, "" for any other label
AccountKey(details) ==
    IF details = Str(Deposits) THEN "Total Deposits"
    ELSE IF details = Str(Withdrawals) THEN "Total Withdrawals"
    ELSE IF details = Str(EndingRealizedEquity) THEN "Current Realized Equity"
    ELSE IF details = Str(EndingUnrealizedEquity) THEN "Current Unrealized Equity"
    ELSE ""

\* mutant: the withdrawals subtracted with their sign
NetInvestmentSigned(m) == m["Total Deposits"] - m["Total Withdrawals"]

NetInvestment(m) == m["Total Deposits"] - Abs(m["Total Withdrawals"])

amount_columns == <<AmountCrLfInUSD, AmountInUSD, AmountLfInUSD, AmountUSD>>

\* mutant: the fallback takes a header with either word
ResolveAmountColumnEither(columns) ==
    LET exact == {k \in DOMAIN amount_columns : amount_columns[k] \in Range(columns)}
        fuzzy == {k \in DOMAIN columns :
                     Contains(columns[k], Amount) \/ Contains(columns[k], USD)}
        first(S) == CHOOSE k \in S : \A j \in S : k <= j
    IN  IF exact # {} THEN amount_columns[first(exact)]
        ELSE IF fuzzy # {} THEN columns[first(fuzzy)]
        ELSE <<>>

\* the header the amounts are read from, <<>> (None) when there is none
ResolveAmountColumn(columns) ==
    LET exact == {k \in DOMAIN amount_columns : amount_columns[k] \in Range(columns)}
        fuzzy == {k \in DOMAIN columns :
                     Contains(columns[k], Amount) /\ Contains(columns[k], USD)}
        first(S) == CHOOSE k \in S : \A j \in S : k <= j
    IN  IF exact # {} THEN amount_columns[first(exact)]
        ELSE IF fuzzy # {} THEN columns[first(fuzzy)]
        ELSE <<>>

\* mutant: the fee test ahead of the dividend test
ClassifyFeesFirst(name, amount) ==
    IF Contains(name, ProfitOrLoss) /\ amount > 0 THEN "Realized Gains"
    ELSE IF \/ Contains(Lower(name), fee)
            \/ Contains(Lower(name), charge)
            \/ (amount < 0 /\ ~Contains(name, Dividend) /\ ~Contains(name, ProfitOrLoss))
         THEN "Total Expenses and Fees"
    ELSE IF Contains(name, Dividend) THEN "Dividend Income"
    ELSE IF amount > 0 /\ ~Contains(name, ProfitOrLoss) /\ ~Contains(name, Dividend)
         THEN "Other Income"
    ELSE ""

\* mutant: the last test takes a zero amount as income
ClassifyZeroAsIncome(name, amount) ==
    IF Contains(name, ProfitOrLoss) /\ amount > 0 THEN "Realized Gains"
    ELSE IF Contains(name, Dividend) THEN "Dividend Income"
    ELSE IF \/ Contains(Lower(name), fee)
            \/ Contains(Lower(name), charge)
            \/ (amount < 0 /\ ~Contains(name, Dividend) /\ ~Contains(name, ProfitOrLoss))
         THEN "Total Expenses and Fees"
    ELSE IF amount >= 0 /\ ~Contains(name, ProfitOrLoss) /\ ~Contains(name, Dividend)
         THEN "Other Income"
    ELSE ""

\* the bucket a transaction goes to, "" when no branch of the chain is taken
Classify(name, amount) ==
    IF Contains(name, ProfitOrLoss) /\ amount > 0 THEN "Realized Gains"
    ELSE IF Contains(name, Dividend) THEN "Dividend Income"
    ELSE IF \/ Contains(Lower(name), fee)
            \/ Contains(Lower(name), charge)
            \/ (amount < 0 /\ ~Contains(name, Dividend) /\ ~Contains(name, ProfitOrLoss))
         THEN "Total Expenses and Fees"
    ELSE IF amount > 0 /\ ~Contains(name, ProfitOrLoss) /\ ~Contains(name, Dividend)
         THEN "Other Income"
    ELSE ""

\* what the taken branch adds to its bucket
Contribution(bucket, amount) ==
    IF bucket = "Total Expenses and Fees" THEN Abs(amount) ELSE amount

\* mutant: the expenses subtracted, as the comment in the source has it
NetRealizedProfitLessExpenses(m) ==
    m["Realized Gains"] + m["Dividend Income"] + m["Other Income"]
        - m["Total Expenses and Fees"]

NetRealizedProfit(m) ==
    m["Realized Gains"] + m["Dividend Income"] + m["Other Income"]
        + m["Total Expenses and Fees"]

UnrealizedProfit(m) ==
    IF m["Current Unrealized Equity"] > 0 /\ m["Current Realized Equity"] > 0
    THEN m["Current Unrealized Equity"] - m["Current Realized Equity"]
    ELSE m["Unrealized Profit"]

-----------------------------------------------------------------------------
(* calculate_roi *)

\* mutant: the division by Net Investment itself, not its absolute value
calculate_roi_signed(m, up) ==
    IF m["Net Investment"] # 0
    THEN LET flip == IF m["Net Investment"] < 0 THEN -1 ELSE 1
             num  == m["Net Realized Profit"] * 100 * flip
             den  == Abs(m["Net Investment"])
             sign == IF num > 0 THEN <<"+">> ELSE <<>>
             neg  == IF num < 0 THEN <<"-">> ELSE <<>>
             h    == RoundFloat(Abs(num) * 100, den, up)
         IN  [roi |-> <<num, den>>,
              formatted |-> sign \o neg \o Format2f(h) \o <<"%">>]
    ELSE [roi |-> <<0, 1>>, formatted |-> NA]

\* [roi, formatted]: roi as the exact fraction <<numerator, denominator>>,
\* formatted as the text f"{sign}{roi:.2f}%"; up is the side the float
\* falls on when the hundredths are exactly halfway
calculate_roi(m, up) ==
    IF m["Net Investment"] # 0
    THEN LET num  == m["Net Realized Profit"] * 100
             den  == Abs(m["Net Investment"])
             sign == IF num > 0 THEN <<"+">> ELSE <<>>
             neg  == IF num < 0 THEN <<"-">> ELSE <<>>
             h    == RoundFloat(Abs(num) * 100, den, up)
         IN  [roi |-> <<num, den>>,
              formatted |-> sign \o neg \o Format2f(h) \o <<"%">>]
    ELSE [roi |-> <<0, 1>>, formatted |-> NA]

-----------------------------------------------------------------------------
(* format_financial_table *)

table_structure ==
    <<[section |-> "Investment",
       metrics |-> <<"Total Deposits", "Total Withdrawals", "Net Investment">>],
      [section |-> "Realized",
       metrics |-> <<"Realized Gains", "Dividend Income", "Other Income",
                     "Total Expenses and Fees", "Net Realized Profit",
                     "Current Realized Equity">>],
      [section |-> "Unrealized",
       metrics |-> <<"Unrealized Profit", "Current Unrealized Equity">>],
      [section |-> "Performance",
       metrics |-> <<"Return on Investment">>]>>

\* a row of the Rich table: the two cells, the markup style of the value and
\* whether the row was added with style="dim"
TableRow(label, value, style, dim) ==
    [label |-> label, value |-> value, style |-> style, dim |-> dim]

Indent == <<" ", " ">>

\* isinstance(value, str): the ROI text is the only text in the dict
IsText(key) == key = ROI

\* value != 0; a text never equals 0
NotZero(key, value) == IF IsText(key) THEN TRUE ELSE value # 0

\* mutant: only positive values are displayed
DisplayedPositive(key, value) == IF IsText(key) THEN TRUE ELSE value > 0

\* the test that decides between the value and the placeholder
Displayed(key, value) == NotZero(key, value) \/ key = ROI

\* the text of a monetary value
FormatMoney(key, value) ==
    IF key = "Total Expenses and Fees"
    THEN <<"-", "$">> \o FormatGrouped2f(Abs(-Abs(value)))
    ELSE LET formatted_value == <<"$">> \o FormatGrouped2f(Abs(value))
         IN  IF value > 0 THEN <<"+">> \o formatted_value
             ELSE IF value < 0 THEN <<"-">> \o formatted_value
             ELSE formatted_value

\* the style of a monetary value
MoneyStyle(key, value) ==
    LET v == IF key = "Total Expenses and Fees" THEN -Abs(value) ELSE value
    IN  IF Contains(KeyText(key), Withdrawals) THEN ""
        ELSE IF v > 0 THEN "green"
        ELSE IF v < 0 THEN "red"
        ELSE ""

\* the style of the ROI row, from the number parsed back out of the text
RoiStyle(key, value) ==
    IF Contains(KeyText(key), ReturnOnInvestmentText) /\ ~Contains(value, NA)
    THEN LET roi_numeric ==
                 ParseFloat(Replace(Replace(value, <<"%">>, <<>>), <<"+">>, <<>>)).h
         IN  IF roi_numeric > 0 THEN "green" ELSE "red"
    ELSE ""

\* the row the table gets for one key of a section
MetricRow(m, key) ==
    IF Displayed(key, m[key])
    THEN LET display_key == Replace(KeyText(key), TotalSpace, <<>>)
         IN  IF IsText(key)
             THEN TableRow(Indent \o display_key, m[key], RoiStyle(key, m[key]), FALSE)
             ELSE TableRow(Indent \o display_key, FormatMoney(key, m[key]),
                           MoneyStyle(key, m[key]), FALSE)
    ELSE TableRow(Indent \o KeyText(key), NA, "", TRUE)

\* the rows one section adds: a separator (all but the first), the header,
\* then a row for every key of the section that is in the dict
SectionRows(m, k) ==
    LET section == table_structure[k]
        present == SelectSeq(section.metrics, LAMBDA key : key \in DOMAIN m)
    IN  (IF k > 1 THEN <<TableRow(<<>>, <<>>, "end_section", FALSE)>> ELSE <<>>)
        \o <<TableRow(<<section.section>>, <<>>, "bold", FALSE)>>
        \o [j \in DOMAIN present |-> MetricRow(m, present[j])]

\* the dict after metrics['Return on Investment'] = roi_formatted
WithRoi(m, up) ==
    [k \in DOMAIN m \cup {ROI} |->
        IF k = ROI THEN calculate_roi(m, up).formatted ELSE m[k]]

TableRows(m) ==
    SectionRows(m, 1) \o SectionRows(m, 2) \o SectionRows(m, 3) \o SectionRows(m, 4)

-----------------------------------------------------------------------------
(* main *)

\* mutant: the record is taken from the dict before the ROI entry is added
ItemsNumericOnly(m) == [k \in DOMAIN MetricNames |-> <<MetricNames[k], m[MetricNames[k]]>>]

\* list(metrics.items()): the eleven keys in the order of the dict literal,
\* then the key format_financial_table added
Items(m) ==
    LET keys == IF ROI \in DOMAIN m THEN Append(MetricNames, ROI) ELSE MetricNames
    IN  [k \in DOMAIN keys |-> <<keys[k], m[keys[k]]>>]

CsvPath(path) == Replace(path, DotXlsx, SummaryCsv)

-----------------------------------------------------------------------------
(* Texts of the inputs *)

\* 'Overnight Fee'
N_OvernightFee ==
    <<"O","v","e","r","n","i","g","h","t"," ","F","e","e">>

\* 'SDRT CHARGE'
N_SdrtCharge ==
    <<"S","D","R","T"," ","C","H","A","R","G","E">>

\* 'Interest'
N_Interest ==
    <<"I","n","t","e","r","e","s","t">>

\* 'Dividend fee'
N_DividendFee ==
    <<"D","i","v","i","d","e","n","d"," ","f","e","e">>

\* 'Profit or Loss fee'
N_ProfitOrLossFee ==
    <<"P","r","o","f","i","t"," ","o","r"," ","L","o","s","s"," ","f","e","e">>

\* 'Profit or Loss Dividend'
N_ProfitOrLossDividend ==
    <<"P","r","o","f","i","t"," ","o","r"," ","L","o","s","s"," ","D","i","v","i","d","e","n","d">>

\* 'dividend'
N_dividend ==
    <<"d","i","v","i","d","e","n","d">>

\* 'Units'
H_Units ==
    <<"U","n","i","t","s">>

\* 'Total Amount USD'
H_TotalAmountUSD ==
    <<"T","o","t","a","l"," ","A","m","o","u","n","t"," ","U","S","D">>

\* 'Amount (EUR)'
H_AmountEUR ==
    <<"A","m","o","u","n","t"," ","(","E","U","R",")">>

\* 'Fees'
L_Fees ==
    <<"F","e","e","s">>

\* 'USD'
V_USD ==
    <<"U","S","D">>

\* 'pending'
V_Pending ==
    <<"p","e","n","d","i","n","g">>

\* '50'
V_Fifty ==
    <<"5","0">>

\* 'st.xlsx'
P_Statement ==
    <<"s","t",".","x","l","s","x">>

\* 'st.xlsm'
P_Xlsm ==
    <<"s","t",".","x","l","s","m">>

\* 'st.XLSX'
P_Upper ==
    <<"s","t",".","X","L","S","X">>

\* 'a.xlsx/st.xlsx'
P_Dir ==
    <<"a",".","x","l","s","x","/","s","t",".","x","l","s","x">>

\* 'st'
P_NoExt ==
    <<"s","t">>

\* 'st_summary.csv'
P_Csv ==
    <<"s","t","_","s","u","m","m","a","r","y",".","c","s","v">>

-----------------------------------------------------------------------------
(* Inputs of the model *)

SeqsUpTo(S, n) == UNION {[1..k -> S] : k \in 0..n}

AccountRow(details, value) == [Details |-> details, Value |-> value]

\* a 'Financial Summary' row: one cell under every header
SheetRow(columns, cells) ==
    [c \in Range(columns) |-> cells[CHOOSE k \in DOMAIN columns : columns[k] = c]]

Sheet(columns, cells) ==
    [columns |-> columns,
     rows |-> [k \in DOMAIN cells |-> SheetRow(columns, cells[k])]]

AccountLabels ==
    {Str(Deposits), Str(Withdrawals), Str(EndingRealizedEquity),
     Str(EndingUnrealizedEquity), Str(L_Fees), NaN}

AccountCells == {Num(-2000), Num(2000), Num(10000), Str(V_USD), NaN}

AccountTables ==
    SeqsUpTo({AccountRow(d, v) : d \in AccountLabels, v \in AccountCells},
             MaxAccountRows)

\* Deposits=10000, Withdrawals=-2000
ScenarioAccount ==
    <<AccountRow(Str(Deposits), Num(10000)), AccountRow(Str(Withdrawals), Num(-2000))>>

\* a "Profit or Loss" row of +500, a "Dividend" row of +50, a "fee" row of -20
ScenarioCells ==
    <<<<Str(ProfitOrLoss), Num(500)>>, <<Str(Dividend), Num(50)>>,
      <<Str(fee), Num(-20)>>>>

ScenarioSheet == Sheet(<<Name, AmountInUSD>>, ScenarioCells)

\* the scenario under three headers
ScenarioCells3 == [k \in DOMAIN ScenarioCells |-> Append(ScenarioCells[k], Num(1))]

\* the sheets the account tables are combined with
FewSheets ==
    {ScenarioSheet,
     \* no amount column: "Amount" without "USD"
     Sheet(<<Name, H_Units, H_AmountEUR>>, ScenarioCells3),
     \* only the substring fallback finds the column; a negative dividend
     Sheet(<<Name, H_TotalAmountUSD>>, <<<<Str(Dividend), Num(-20)>>>>),
     \* two exact variants: the list order decides, not the sheet order
     Sheet(<<Name, AmountUSD, AmountCrLfInUSD>>,
           <<<<Str(N_Interest), Num(50), Num(-20)>>,
             <<Str(N_OvernightFee), NaN, Str(V_Fifty)>>>>),
     \* no 'Name' column: every row is passed over
     Sheet(<<AmountLfInUSD>>, <<<<Num(50)>>>>)}

Names ==
    {ProfitOrLoss, Dividend, N_OvernightFee, N_SdrtCharge, N_Interest,
     N_DividendFee, N_ProfitOrLossFee, N_ProfitOrLossDividend, N_dividend}

Amounts == {-20, 0, 50}

RowCells ==
    {<<Str(n), Num(a)>> : n \in Names, a \in Amounts}
        \cup {<<NaN, Num(50)>>, <<Str(Dividend), NaN>>,
              <<Str(Dividend), Str(V_Pending)>>, <<Str(fee), Str(V_Fifty)>>,
              \* a number in the 'Name' column
              <<Num(50), Num(50)>>}

\* every sheet of at most MaxRows rows, and the scenario
ManySheets ==
    {Sheet(<<Name, AmountUSD>>, cells) : cells \in SeqsUpTo(RowCells, MaxRows)}
        \cup {ScenarioSheet}

Paths == {P_Statement, P_Xlsm, P_Upper, P_Dir, P_NoExt, P_Csv}

-----------------------------------------------------------------------------
(* Initial states *)

\* before main runs: nothing is loaded, nothing is printed or written
InitOver(paths) ==
    /\ pc = "main"
    /\ argv \in {<<>>} \cup {<<p>> : p \in paths}
    /\ account_summary = <<>>
    /\ financial_summary = Sheet(<<>>, <<>>)
    /\ file_path = <<>>
    /\ metrics = InitialMetrics
    /\ idx = 0
    /\ branch = ""
    /\ amount_column = <<>>
    /\ console = <<>>
    /\ table = <<>>
    /\ csv_path = <<>>
    /\ csv = <<>>
    /\ exit_code = -1

Init == InitOver({P_Statement})

\* every path
InitPaths == InitOver(Paths)

-----------------------------------------------------------------------------
(* The run: main, process_etoro_statement, format_financial_table *)

\* sys.argv has no path: the usage line, exit status 1
Usage ==
    /\ pc = "main"
    /\ Len(argv) < 1
    /\ console' = Append(console, "usage")
    /\ exit_code' = 1
    /\ pc' = "exit"
    /\ UNCHANGED <<argv, account_summary, financial_summary, file_path, metrics,
                   idx, branch, amount_column, table, csv_path, csv>>

\* both sheets load, with some content; the metrics dict starts at zero
LoadSheets(accounts, sheets) ==
    /\ pc = "main"
    /\ Len(argv) >= 1
    /\ file_path' = argv[1]
    /\ account_summary' \in accounts
    /\ financial_summary' \in sheets
    /\ metrics' = InitialMetrics
    /\ idx' = 0
    /\ pc' = "account"
    /\ UNCHANGED <<argv, branch, amount_column, console, table, csv_path, csv,
                   exit_code>>

\* read_excel raises (no such file, no such sheet): reported, exit status 1
LoadError ==
    /\ pc = "main"
    /\ Len(argv) >= 1
    /\ file_path' = argv[1]
    /\ console' = Append(console, "Error loading file")
    /\ exit_code' = 1
    /\ pc' = "exit"
    /\ UNCHANGED <<argv, account_summary, financial_summary, metrics, idx, branch,
                   amount_column, table, csv_path, csv>>

\* one iteration of the loop over the 'Account Summary' rows
ScanAccountRow ==
    /\ pc = "account"
    /\ idx < Len(account_summary)
    /\ LET row   == account_summary[idx + 1]
           key   == AccountKey(row.Details)
           value == to_float(row.Value)
       IN  IF notna(row.Details) /\ key # "" /\ notna(row.Value)
           THEN IF value.ok
                THEN /\ metrics' = [metrics EXCEPT ![key] = value.n]
                     /\ idx' = idx + 1
                     /\ UNCHANGED <<pc, console, exit_code>>
                ELSE \* float() raises ValueError, which nothing catches
                     /\ console' = Append(console, "Traceback")
                     /\ exit_code' = 1
                     /\ pc' = "exit"
                     /\ UNCHANGED <<metrics, idx>>
           ELSE /\ idx' = idx + 1
                /\ UNCHANGED <<pc, metrics, console, exit_code>>
    /\ UNCHANGED <<argv, account_summary, financial_summary, file_path, branch,
                   amount_column, table, csv_path, csv>>

\* the loop is over: Net Investment
CalcNetInvestment ==
    /\ pc = "account"
    /\ idx = Len(account_summary)
    /\ metrics' = [metrics EXCEPT !["Net Investment"] = NetInvestment(metrics)]
    /\ pc' = "column"
    /\ UNCHANGED <<argv, account_summary, financial_summary, file_path, idx, branch,
                   amount_column, console, table, csv_path, csv, exit_code>>

\* the amount column is resolved; without one the dict is returned as it is
FindAmountColumn ==
    /\ pc = "column"
    /\ amount_column' = ResolveAmountColumn(financial_summary.columns)
    /\ idx' = 0
    /\ IF amount_column' = <<>>
       THEN /\ console' = Append(console, "ERROR: Could not find amount column")
            /\ pc' = "returned"
       ELSE /\ pc' = "rows"
            /\ UNCHANGED console
    /\ UNCHANGED <<argv, account_summary, financial_summary, file_path, metrics,
                   branch, table, csv_path, csv, exit_code>>

\* one iteration of the loop over the 'Financial Summary' rows
ProcessRow ==
    /\ pc = "rows"
    /\ idx < Len(financial_summary.rows)
    /\ LET row    == financial_summary.rows[idx + 1]
           name   == Get(row, Name)
           amount == to_float(Get(row, amount_column))
           bucket == Classify(name.s, amount.n)
       IN  IF notna(name) /\ notna(Get(row, amount_column))
           THEN IF ~amount.ok
                THEN \* except (ValueError, TypeError): continue
                     /\ idx' = idx + 1
                     /\ branch' = "skipped"
                     /\ UNCHANGED <<pc, metrics, console, exit_code>>
                ELSE IF name.t # "str"
                THEN \* "Profit or Loss" in name raises TypeError on a number
                     /\ console' = Append(console, "Traceback")
                     /\ exit_code' = 1
                     /\ pc' = "exit"
                     /\ UNCHANGED <<metrics, idx, branch>>
                ELSE /\ idx' = idx + 1
                     /\ branch' = bucket
                     /\ metrics' =
                            IF bucket = "" THEN metrics
                            ELSE [metrics EXCEPT
                                     ![bucket] = @ + Contribution(bucket, amount.n)]
                     /\ UNCHANGED <<pc, console, exit_code>>
           ELSE /\ idx' = idx + 1
                /\ branch' = "skipped"
                /\ UNCHANGED <<pc, metrics, console, exit_code>>
    /\ UNCHANGED <<argv, account_summary, financial_summary, file_path,
                   amount_column, table, csv_path, csv>>

\* the loop is over: Net Realized Profit, then Unrealized Profit; return
Derive ==
    /\ pc = "rows"
    /\ idx = Len(financial_summary.rows)
    /\ LET m == [metrics EXCEPT !["Net Realized Profit"] = NetRealizedProfit(metrics)]
       IN  metrics' = [m EXCEPT !["Unrealized Profit"] = UnrealizedProfit(m)]
    /\ pc' = "returned"
    /\ UNCHANGED <<argv, account_summary, financial_summary, file_path, idx, branch,
                   amount_column, console, table, csv_path, csv, exit_code>>

\* format_financial_table(metrics) and console.print(table)
FormatFinancialTable ==
    /\ pc = "returned"
    /\ \E up \in BOOLEAN : metrics' = WithRoi(metrics, up)
    /\ table' = TableRows(metrics')
    /\ console' = Append(console, "table")
    /\ pc' = "formatted"
    /\ UNCHANGED <<argv, account_summary, financial_summary, file_path, idx, branch,
                   amount_column, csv_path, csv, exit_code>>

\* the DataFrame of the dict's items is written; main returns
SaveCsv ==
    /\ pc = "formatted"
    /\ csv' = Items(metrics)
    /\ csv_path' = CsvPath(file_path)
    /\ exit_code' = 0
    /\ pc' = "exit"
    /\ UNCHANGED <<argv, account_summary, financial_summary, file_path, metrics,
                   idx, branch, amount_column, console, table>>

\* the steps after the sheets are loaded
Process ==
    \/ ScanAccountRow
    \/ CalcNetInvestment
    \/ FindAmountColumn
    \/ ProcessRow
    \/ Derive
    \/ FormatFinancialTable
    \/ SaveCsv

\* every account table, against a few sheets
Next ==
    \/ Usage
    \/ LoadSheets(AccountTables, FewSheets)
    \/ LoadError
    \/ Process

\* every sheet, against the scenario's account table
NextRows ==
    \/ Usage
    \/ LoadSheets({ScenarioAccount}, ManySheets)
    \/ LoadError
    \/ Process

\* a few workbooks, for every path
NextPaths ==
    \/ Usage
    \/ LoadSheets({ScenarioAccount, <<>>}, FewSheets)
    \/ LoadError
    \/ Process

-----------------------------------------------------------------------------
(* Specifications *)

Spec == Init /\ [][Next]_vars

SpecRows == Init /\ [][NextRows]_vars

SpecPaths == InitPaths /\ [][NextPaths]_vars

-----------------------------------------------------------------------------
(* What the properties refer to *)

Buckets == {"Realized Gains", "Dividend Income", "Other Income", "Total Expenses and Fees"}

\* the value the account-totals table gives for a label: the numeric cell of
\* the last row carrying the label, zero when there is none
TableValue(label) ==
    LET hits == {k \in DOMAIN account_summary :
                    /\ account_summary[k].Details = Str(label)
                    /\ account_summary[k].Value.t = "num"}
    IN  IF hits = {} THEN 0
        ELSE account_summary[CHOOSE k \in hits : \A j \in hits : j <= k].Value.n

\* the sheet has none of the four exact headers and no header with both words
NoAmountColumn ==
    \A k \in DOMAIN financial_summary.columns :
        LET h == financial_summary.columns[k]
        IN  /\ h \notin {AmountCrLfInUSD, AmountInUSD, AmountLfInUSD, AmountUSD}
            /\ ~(Contains(h, Amount) /\ Contains(h, USD))

\* process_etoro_statement has returned its dict and nothing has touched it yet
Returned == pc = "returned"

\* the missing amount column was reported
Degraded ==
    \E k \in DOMAIN console : console[k] = "ERROR: Could not find amount column"

\* the row the loop over the transactions consumed last
LastRow == financial_summary.rows[idx]

\* that row had a name and a coercible amount, and was classified
LastRowClassified ==
    /\ pc = "rows"
    /\ idx >= 1
    /\ branch # "skipped"

HasProfitOrLoss(name) == Contains(name, ProfitOrLoss)

HasDividend(name) == Contains(name, Dividend)

HasFeeOrCharge(name) == Contains(Lower(name), fee) \/ Contains(Lower(name), charge)

-----------------------------------------------------------------------------
(* C1 *)

C1_Expected ==
    LET D == TableValue(Deposits)
        W == TableValue(Withdrawals)
    IN  [deposits |-> D, withdrawals |-> W,
         net |-> IF W < 0 THEN D + W ELSE D - W]

\* C1: in the dict process_etoro_statement returns, Total Deposits and Total
\* Withdrawals are the values of the account-totals table (zero when the
\* label is missing) and Net Investment is Total Deposits minus the absolute
\* value of Total Withdrawals, with or without an amount column.
C1_NetInvestment ==
    Returned =>
        /\ metrics["Total Deposits"] = C1_Expected.deposits
        /\ metrics["Total Withdrawals"] = C1_Expected.withdrawals
        /\ metrics["Net Investment"] = C1_Expected.net

\* the amount column is missing and a negative withdrawal was subtracted
C1_Witness ==
    /\ Returned
    /\ Degraded
    /\ metrics["Total Deposits"] = 10000
    /\ metrics["Total Withdrawals"] = -2000
    /\ metrics["Net Investment"] = 8000

-----------------------------------------------------------------------------
(* C2 *)

RoiText == metrics[ROI]

\* the ROI text without its '%' and without a leading sign
RoiDigits ==
    LET t == SubSeq(RoiText, 1, Len(RoiText) - 1)
    IN  IF Len(t) > 0 /\ t[1] \in {"+", "-"} THEN Tail(t) ELSE t

\* the text stands for Net Realized Profit / abs(Net Investment) * 100: its
\* magnitude, read back, is within half a hundredth of the quotient
RoiRepresentsQuotient ==
    LET p   == ParseFloat(RoiDigits)
        den == Abs(metrics["Net Investment"])
        num == Abs(metrics["Net Realized Profit"]) * 10000
    IN  /\ p.ok
        /\ 2 * Abs(p.h * den - num) <= den

RoiEndsWithPercent == Len(RoiText) >= 1 /\ RoiText[Len(RoiText)] = "%"

\* C2 as stated: "N/A" iff Net Investment is zero; otherwise the text stands
\* for the quotient, carries a sign prefix and ends with '%'.
C2_Original ==
    ROI \in DOMAIN metrics =>
        /\ (RoiText = NA) <=> (metrics["Net Investment"] = 0)
        /\ metrics["Net Investment"] # 0 =>
              /\ RoiRepresentsQuotient
              /\ RoiText[1] \in {"+", "-"}
              /\ (RoiText[1] = "+") <=> (metrics["Net Realized Profit"] > 0)
              /\ RoiEndsWithPercent

\* C2 (amended): the ROI text is "N/A" iff Net Investment is zero; otherwise
\* it stands for Net Realized Profit / abs(Net Investment) * 100 and ends
\* with '%', with the prefix '+' when Net Realized Profit is positive, '-'
\* when it is negative and no sign prefix when it is zero ("0.00%"); the
\* sign never depends on the sign of Net Investment.
C2_Roi ==
    ROI \in DOMAIN metrics =>
        /\ (RoiText = NA) <=> (metrics["Net Investment"] = 0)
        /\ metrics["Net Investment"] # 0 =>
              /\ RoiRepresentsQuotient
              /\ (RoiText[1] = "+") <=> (metrics["Net Realized Profit"] > 0)
              /\ (RoiText[1] = "-") <=> (metrics["Net Realized Profit"] < 0)
              /\ IsDigit(RoiText[1]) <=> (metrics["Net Realized Profit"] = 0)
              /\ RoiEndsWithPercent

\* a profit on a negative net investment: the ROI is positive
C2_Witness ==
    /\ ROI \in DOMAIN metrics
    /\ metrics["Net Investment"] < 0
    /\ metrics["Net Realized Profit"] > 0
    /\ RoiText[1] = "+"

-----------------------------------------------------------------------------
(* C3 *)

\* the four rules in their order: <<applies, bucket, what is added>>
C3_Rules(name, amount) ==
    <<<<HasProfitOrLoss(name) /\ amount > 0, "Realized Gains", amount>>,
      <<HasDividend(name), "Dividend Income", amount>>,
      <<HasFeeOrCharge(name)
            \/ (amount < 0 /\ ~HasDividend(name) /\ ~HasProfitOrLoss(name)),
        "Total Expenses and Fees", Abs(amount)>>,
      <<amount > 0 /\ ~HasProfitOrLoss(name) /\ ~HasDividend(name),
        "Other Income", amount>>>>

\* what the first rule that applies adds to bucket b
C3_Added(name, amount, b) ==
    LET rules   == C3_Rules(name, amount)
        matches == {k \in DOMAIN rules : rules[k][1]}
    IN  IF matches = {} THEN 0
        ELSE LET k == CHOOSE i \in matches : \A j \in matches : i <= j
             IN  IF rules[k][2] = b THEN rules[k][3] ELSE 0

\* C3: a transaction row with a name and a coercible amount changes only the
\* bucket of the first rule that matches it, by that rule's amount; the other
\* three buckets, and every other metric, are left as they were.
C3_FirstMatchingRule ==
    [][(pc = "rows" /\ idx' = idx + 1 /\ branch' # "skipped") =>
          LET row    == financial_summary.rows[idx + 1]
              name   == row[Name].s
              amount == to_float(row[amount_column]).n
          IN  /\ \A b \in Buckets :
                    metrics'[b] = metrics[b] + C3_Added(name, amount, b)
              /\ \A k \in DOMAIN metrics \ Buckets : metrics'[k] = metrics[k]
              /\ Cardinality({b \in Buckets : metrics'[b] # metrics[b]}) <= 1]_vars

\* a negative "Dividend fee" row, which rules 2 and 3 both match, went to the
\* dividends
C3_Witness ==
    /\ LastRowClassified
    /\ idx = 1
    /\ LastRow[Name] = Str(N_DividendFee)
    /\ LastRow[amount_column] = Num(-20)
    /\ metrics["Dividend Income"] = -20
    /\ metrics["Total Expenses and Fees"] = 0

-----------------------------------------------------------------------------
(* C4 *)

\* the run got past the resolution of the amount column
PastColumn ==
    \/ pc \in {"rows", "returned", "formatted"}
    \/ (pc = "exit" /\ (Degraded \/ exit_code = 0))

\* C4: when the sheet has no amount column, the five metrics that depend on
\* it are zero in the returned dict, the five that come from the account
\* table have the values that table gives, and the run goes on to print the
\* report and write the record, ending with exit code 0.
C4_DegradedRun ==
    (PastColumn /\ NoAmountColumn) =>
        /\ Degraded
        /\ \A b \in Buckets \cup {"Net Realized Profit"} : metrics[b] = 0
        /\ metrics["Total Deposits"] = TableValue(Deposits)
        /\ metrics["Total Withdrawals"] = TableValue(Withdrawals)
        /\ metrics["Net Investment"] =
               TableValue(Deposits) - Abs(TableValue(Withdrawals))
        /\ metrics["Current Realized Equity"] = TableValue(EndingRealizedEquity)
        /\ metrics["Current Unrealized Equity"] = TableValue(EndingUnrealizedEquity)
        /\ pc \in {"returned", "formatted", "exit"}
        /\ pc = "formatted" =>
              console = <<"ERROR: Could not find amount column", "table">>
        /\ pc = "exit" =>
              /\ exit_code = 0
              /\ console = <<"ERROR: Could not find amount column", "table">>
              /\ csv # <<>>

\* a degraded run that ended: deposits kept, record written, exit code 0
C4_Witness ==
    /\ pc = "exit"
    /\ exit_code = 0
    /\ NoAmountColumn
    /\ Len(financial_summary.rows) = 3
    /\ metrics["Total Deposits"] = 10000
    /\ metrics["Current Unrealized Equity"] = 2000
    /\ csv # <<>>

-----------------------------------------------------------------------------
(* C5 *)

\* the sum of abs(amount) over the rows of the sheet that are expense rows
RECURSIVE C5_Expenses(_)
C5_Expenses(k) ==
    IF k = 0 THEN 0
    ELSE LET row    == financial_summary.rows[k]
             name   == Get(row, Name)
             cell   == Get(row, amount_column)
             amount == to_float(cell)
             counts == /\ name.t = "str"
                       /\ notna(cell)
                       /\ amount.ok
                       /\ ~(HasProfitOrLoss(name.s) /\ amount.n > 0)
                       /\ ~HasDividend(name.s)
                       /\ \/ HasFeeOrCharge(name.s)
                          \/ (amount.n < 0 /\ ~HasProfitOrLoss(name.s))
         IN  C5_Expenses(k - 1) + (IF counts THEN Abs(amount.n) ELSE 0)

-----------------------------------------------------------------------------
(* C6 *)

\* C6 as stated: a row with a name and a coercible amount takes no branch
\* only if its name contains "Profit or Loss" and its amount is negative;
\* every other row goes to exactly one bucket.
C6_Original ==
    LastRowClassified =>
        LET name   == LastRow[Name].s
            amount == to_float(LastRow[amount_column]).n
        IN  /\ branch = "" => (HasProfitOrLoss(name) /\ amount < 0)
            /\ branch # "" => branch \in Buckets

\* C6 (amended): a row with a name and a coercible amount takes no branch
\* exactly when its name contains neither "Dividend" nor "fee"/"charge" and
\* its amount is zero, or is negative under a name containing "Profit or
\* Loss"; every other row goes to exactly one bucket.
C6_ClosedClassification ==
    LastRowClassified =>
        LET name   == LastRow[Name].s
            amount == to_float(LastRow[amount_column]).n
        IN  /\ branch = "" <=>
                  /\ ~HasDividend(name)
                  /\ ~HasFeeOrCharge(name)
                  /\ amount = 0 \/ (amount < 0 /\ HasProfitOrLoss(name))
            /\ branch # "" => branch \in Buckets

\* a negative "Profit or Loss" row was dropped
C6_Witness ==
    /\ LastRowClassified
    /\ LastRow[Name] = Str(ProfitOrLoss)
    /\ LastRow[amount_column] = Num(-20)
    /\ branch = ""
    /\ \A b \in Buckets : metrics[b] = 0

-----------------------------------------------------------------------------
(* C7 *)

\* the positions of a character in a text
Positions(s, c) == {k \in DOMAIN s : s[k] = c}

\* the path without the extension of its last component
C7_WithoutExtension(path) ==
    LET slashes == Positions(path, "/")
        start   == IF slashes = {} THEN 0
                   ELSE CHOOSE k \in slashes : \A j \in slashes : j <= k
        dots    == {k \in Positions(path, ".") : k > start + 1}
    IN  IF dots = {} THEN path
        ELSE SubSeq(path, 1, (CHOOSE k \in dots : \A j \in dots : j <= k) - 1)

\* C7: the record is written to the input's name with its extension replaced
\* by "_summary.csv", which is never the input path itself.
C7_OutputPath ==
    csv_path # <<>> =>
        /\ csv_path = C7_WithoutExtension(file_path) \o SummaryCsv
        /\ csv_path # file_path

-----------------------------------------------------------------------------
(* C8 *)

\* what the 'Return on Investment' row of a table shows
C8_RoiShown(t) ==
    LET rows == {k \in DOMAIN t : t[k].label = Indent \o ReturnOnInvestmentText}
    IN  t[CHOOSE k \in rows : TRUE].value

\* C8: the record holds twelve entries: the eleven metrics in the dict's
\* order with the values process_etoro_statement returned, which building the
\* report leaves untouched, and 'Return on Investment' with the text the
\* report shows.
C8_FlatRecord ==
    [][/\ pc = "returned" =>
             /\ \A k \in Range(MetricNames) : metrics'[k] = metrics[k]
             /\ C8_RoiShown(table') = metrics'[ROI]
       /\ pc = "formatted" =>
             /\ pc' = "exit"
             /\ exit_code' = 0
             /\ Len(csv') = 12
             /\ \A k \in 1..11 :
                   csv'[k] = <<MetricNames[k], metrics[MetricNames[k]]>>
             /\ csv'[12] = <<ROI, C8_RoiShown(table)>>]_vars

\* the scenario's record: expenses with their internal sign, the ROI text
C8_Witness ==
    /\ pc = "exit"
    /\ Len(csv) = 12
    /\ csv[1] = <<"Total Deposits", 10000>>
    /\ csv[7] = <<"Total Expenses and Fees", 20>>
    /\ csv[12] = <<ROI, <<"+", "7", ".", "1", "2", "%">>>>

-----------------------------------------------------------------------------
(* C9 *)

\* C9: in the returned dict Unrealized Profit is Current Unrealized Equity
\* minus Current Realized Equity when both are strictly positive and zero
\* otherwise, also when the amount column is missing.
C9_UnrealizedProfit ==
    Returned =>
        metrics["Unrealized Profit"] =
            IF /\ metrics["Current Unrealized Equity"] > 0
               /\ metrics["Current Realized Equity"] > 0
            THEN metrics["Current Unrealized Equity"]
                     - metrics["Current Realized Equity"]
            ELSE 0

-----------------------------------------------------------------------------
(* C10 *)

\* the two spellings a key can have in the first column
C10_Labels ==
    [key \in Range(MetricNames) \cup {ROI} |->
        {Indent \o KeyText(key), Indent \o Replace(KeyText(key), TotalSpace, <<>>)}]

\* the rows of the table that belong to a key
C10_RowsOf(key) == {k \in DOMAIN table : table[k].label \in C10_Labels[key]}

\* the amount a monetary text stands for, in hundredths, sign dropped
C10_Magnitude(text) ==
    LET unsigned == IF Len(text) > 0 /\ text[1] \in {"+", "-"} THEN Tail(text) ELSE text
    IN  IF Len(unsigned) > 0 /\ unsigned[1] = "$"
        THEN ParseFloat(Replace(Tail(unsigned), <<",">>, <<>>))
        ELSE [ok |-> FALSE, h |-> 0]

\* C10: each of the eleven numeric metrics has one row, which is the dim
\* "N/A" placeholder iff the value is zero and otherwise shows the value as
\* money; the ROI row is never dim and always shows the ROI text, "N/A"
\* included.
C10_ZeroSuppression ==
    table # <<>> =>
        /\ \A key \in Range(MetricNames) :
              LET rows == C10_RowsOf(key)
              IN  /\ Cardinality(rows) = 1
                  /\ \A k \in rows :
                        /\ table[k].dim <=> (metrics[key] = 0)
                        /\ table[k].dim => table[k].value = NA
                        /\ ~table[k].dim =>
                              LET shown == C10_Magnitude(table[k].value)
                              IN  shown.ok /\ shown.h = 100 * Abs(metrics[key])
        /\ LET rows == C10_RowsOf(ROI)
           IN  /\ Cardinality(rows) = 1
               /\ \A k \in rows :
                     /\ ~table[k].dim
                     /\ table[k].value = metrics[ROI]
                     /\ (metrics["Net Investment"] = 0) => table[k].value = NA

\* deposits equal to withdrawals: the ROI row shows "N/A" and is not dim,
\* next to a dim Net Investment row
C10_Witness ==
    /\ table # <<>>
    /\ metrics["Total Deposits"] = 2000
    /\ metrics["Net Investment"] = 0
    /\ \E k \in C10_RowsOf(ROI) : table[k].value = NA /\ ~table[k].dim
    /\ \E k \in C10_RowsOf("Net Investment") : table[k].dim

====
